---- MODULE Spec2Model ----
\* A model of class TimeBox (src/tbox/timebox.py): the receive buffer
\* message_buf, the operations that classify and extract its content, the
\* drain loops and the socket life cycle.
EXTENDS Integers, Sequences, FiniteSets, TLC

\* ------------------------------------------------------------------ bounds
\* Longest buffer a receive may build (the buffer itself is unbounded).
MaxBuf == 2
\* Longest chunk one ordinary recv returns in the model.
MaxChunk == 2
\* Most receives one drain loop performs in the model.
MaxRounds == 2

\* --------------------------------------------------------- program constants
\* start marker, has_message / buffer_starts_with_garbage / remove_garbage
SOM == 1
\* end marker, has_message / remove_message
EOM == 2
\* receive(num_bytes=1024)
DefaultRecv == 1024
\* clear_input_buffer_quick: receive(512) == 512
QuickRecv == 512

\* The byte values the transport delivers in the model: both markers and one
\* byte that is neither.
Bytes == {SOM, EOM, 5}

\* The two TimeBox objects of the model.
Objs == {"A", "B"}

SeqsUpTo(S, n) == UNION {[1..k -> S] : k \in 0..n}

\* What one ordinary recv may return: any short byte string (b'' included).
Chunks == SeqsUpTo(Bytes, MaxChunk)
\* What one recv of a drain loop may return: the loops look at the count only.
DrainChunks == SeqsUpTo(Bytes, 1)
\* A recv that fills the 512 bytes clear_input_buffer_quick asks for.
FullChunk == [i \in 1..QuickRecv |-> 5]

\* One poll of the transport: select() reports the socket ready or not, and
\* when ready recv(num_bytes) returns at most num_bytes bytes.
NotReady == [ready |-> FALSE, data |-> <<>>]
Responses(num_bytes, chunks) ==
    {NotReady}
        \cup {[ready |-> TRUE, data |-> d] : d \in {c \in chunks : Len(c) <= num_bytes}}

\* ------------------------------------------------------- Python list helpers
\* x in b
In(x, b) == \E i \in 1..Len(b) : b[i] = x
\* b.index(x), 0-based, for x in b
index(b, x) == (CHOOSE i \in 1..Len(b) : b[i] = x /\ \A j \in 1..(i - 1) : b[j] # x) - 1
\* b[lo:hi], 0-based, half open
slice(b, lo, hi) == SubSeq(b, lo + 1, hi)

\* -------------------------------------------------------------------- state
VARIABLES
    class_buf,  \* TimeBox.message_buf: the list object created once at line 35
    shares,     \* shares[o]: o.message_buf resolves to that class-level list
                \* (no instance attribute yet, or one bound to it by +=)
    own,        \* own[o]: the list o.message_buf is bound to once reassigned
    socket,     \* socket[o]: "None", "created", "connected" or "closed"
    last,       \* the last call: operation, object, buffer before, results
    todo,       \* extraction session: the part of the stream not yet delivered
    expect,     \* extraction session: the frames the stream was built from
    frames,     \* extraction session: the values remove_message returned
    pc,         \* extraction session: "recv" (transport's turn) or "loop"
    arg,        \* sending: the arguments of the last send call
    handed,     \* sending: the payloads the last call passed to make_message
    wire,       \* sending: the byte strings the last call passed to socket.send
    rcvd,       \* history: every byte receive() appended, in order
    taken,      \* history: every byte remove_garbage/remove_message returned
    steps,      \* caller's loop: turns taken since the last receive
    len0        \* caller's loop: buffer length when the loop started

heapvars == <<class_buf, shares, own>>
sessvars == <<todo, expect, frames, pc>>
sendvars == <<arg, handed, wire>>
histvars == <<rcvd, taken>>
loopvars == <<steps, len0>>
auxvars == <<sessvars, sendvars, histvars, loopvars>>
vars == <<class_buf, shares, own, socket, last, todo, expect, frames, pc,
          arg, handed, wire, rcvd, taken, steps, len0>>

\* The three buffer variables as one value, so that a method's effect is a
\* function from heap to heap and methods compose as they call each other.
Heap == [cls |-> class_buf, shares |-> shares, own |-> own]

\* self.message_buf (attribute lookup: instance first, then class)
message_buf(h, o) == IF h.shares[o] THEN h.cls ELSE h.own[o]

\* self.message_buf = b: binds the instance attribute to a new list
Rebind(h, o, b) == [h EXCEPT !.shares[o] = FALSE, !.own[o] = b]

\* self.message_buf += data: list.__iadd__ extends the list object in place,
\* then binds self.message_buf to that same object
Extend(h, o, data) ==
    IF h.shares[o] THEN [h EXCEPT !.cls = @ \o data]
                   ELSE [h EXCEPT !.own[o] = @ \o data]

Commit(h) ==
    /\ class_buf' = h.cls
    /\ shares' = h.shares
    /\ own' = h.own

NoCall == [op |-> "none", obj |-> "A", pre |-> <<>>, bytes |-> <<>>,
           bool |-> FALSE, count |-> 0, raised |-> ""]

\* The record of a call of op on o: buffer before the call and what it returned.
Call(op, o) == [NoCall EXCEPT !.op = op, !.obj = o, !.pre = message_buf(Heap, o)]

\* No send call made yet, no history kept yet.
NoArg == [op |-> "none"]
InitAux ==
    /\ arg = NoArg
    /\ handed = <<>>
    /\ wire = <<>>
    /\ rcvd = <<>>
    /\ taken = <<>>
    /\ steps = 0
    /\ len0 = 0

\* ------------------------------------------------------------ construction
\* The class body (lines 33-35) and TimeBox() for both objects: socket = None,
\* message_buf = [] on the class, no instance attributes.
Init ==
    /\ class_buf = <<>>
    /\ shares = [o \in Objs |-> TRUE]
    /\ own = [o \in Objs |-> <<>>]
    /\ socket = [o \in Objs |-> "None"]
    /\ last = NoCall
    /\ todo = <<>>
    /\ expect = <<>>
    /\ frames = <<>>
    /\ pc = "recv"
    /\ InitAux

\* o = TimeBox(): a new object takes the place of o; __init__ sets neither
\* socket nor message_buf, so both resolve to the class attributes.
TimeBox(o) ==
    /\ shares' = [shares EXCEPT ![o] = TRUE]
    /\ own' = [own EXCEPT ![o] = <<>>]
    /\ socket' = [socket EXCEPT ![o] = "None"]
    /\ last' = [NoCall EXCEPT !.op = "TimeBox", !.obj = o]
    /\ UNCHANGED class_buf

\* connect(): the socket is created and assigned before connect and
\* setblocking run; either may raise. The call record notes whether this is
\* the object's first connect (its socket was still None).
connect(o, outcome) ==
    /\ socket' = [socket EXCEPT ![o] =
                     IF outcome = "connect raises" THEN "created" ELSE "connected"]
    /\ last' = [Call("connect", o) EXCEPT
                   !.bool = (socket[o] = "None"),
                   !.raised = IF outcome = "ok" THEN "" ELSE "TransportError"]
    /\ UNCHANGED heapvars

ConnectOutcomes == {"ok", "connect raises", "setblocking raises"}

\* close(): self.socket.close(); None has no close().
close(o) ==
    /\ socket' = [socket EXCEPT ![o] = IF @ = "None" THEN "None" ELSE "closed"]
    /\ last' = [Call("close", o) EXCEPT
                   !.raised = IF socket[o] = "None" THEN "AttributeError" ELSE ""]
    /\ UNCHANGED heapvars

\* ------------------------------------------------------------------ receive
\* receive that binds message_buf to the new data instead of extending it
receive_overwrites(h, o, r) ==
    IF r.ready THEN [h |-> Rebind(h, o, r.data), ret |-> Len(r.data)]
               ELSE [h |-> h, ret |-> 0]

\* receive(num_bytes) on a connected socket, given the transport's response r:
\* the new heap and the returned count.
receive_do(h, o, r) ==
    IF r.ready THEN [h |-> Extend(h, o, r.data), ret |-> Len(r.data)]
               ELSE [h |-> h, ret |-> 0]

\* select() and recv() raise on a socket that is None, unconnected or closed,
\* before the transport answers and before the buffer is touched.
receive(o, r) ==
    IF socket[o] # "connected"
    THEN /\ r = NotReady
         /\ last' = [Call("receive", o) EXCEPT !.raised = "TransportError"]
         /\ UNCHANGED <<heapvars, socket>>
    ELSE LET res == receive_do(Heap, o, r) IN
         /\ Commit(res.h)
         /\ last' = [Call("receive", o) EXCEPT !.bytes = r.data, !.bool = r.ready,
                                               !.count = res.ret]
         /\ UNCHANGED socket

\* ------------------------------------------------------------ classification
\* has_message without the leading-garbage case
has_message_no_garbage(b) ==
    IF Len(b) = 0 THEN FALSE
    ELSE In(EOM, b)

has_message_value(b) ==
    IF Len(b) = 0 THEN FALSE
    ELSE IF b[1] # SOM THEN TRUE
    ELSE In(EOM, b)

has_message(o) ==
    /\ last' = [Call("has_message", o) EXCEPT
                   !.bool = has_message_value(message_buf(Heap, o))]
    /\ UNCHANGED <<heapvars, socket>>

\* buffer_starts_with_garbage without the empty-buffer case
buffer_starts_with_garbage_no_empty(b) ==
    IF Len(b) = 0 THEN TRUE
    ELSE b[1] # SOM

buffer_starts_with_garbage_value(b) ==
    IF Len(b) = 0 THEN FALSE
    ELSE b[1] # SOM

buffer_starts_with_garbage(o) ==
    /\ last' = [Call("buffer_starts_with_garbage", o) EXCEPT
                   !.bool = buffer_starts_with_garbage_value(message_buf(Heap, o))]
    /\ UNCHANGED <<heapvars, socket>>

\* --------------------------------------------------------------- extraction
\* remove_garbage that also takes the start marker it stops at
remove_garbage_off_by_one(h, o) ==
    LET b == message_buf(h, o)
        pos == IF In(SOM, b) THEN index(b, SOM) + 1 ELSE Len(b)
        res == slice(b, 0, pos)
    IN [h |-> Rebind(h, o, slice(b, pos, Len(b))), ret |-> res, raised |-> ""]

remove_garbage_do(h, o) ==
    LET b == message_buf(h, o)
        pos == IF In(SOM, b) THEN index(b, SOM) ELSE Len(b)
        res == slice(b, 0, pos)
    IN [h |-> Rebind(h, o, slice(b, pos, Len(b))), ret |-> res, raised |-> ""]

remove_garbage(o) ==
    LET res == remove_garbage_do(Heap, o) IN
    /\ Commit(res.h)
    /\ last' = [Call("remove_garbage", o) EXCEPT !.bytes = res.ret]
    /\ UNCHANGED socket

\* remove_message that leaves the end marker in the buffer
remove_message_off_by_one(h, o) ==
    LET b == message_buf(h, o) IN
    IF ~In(EOM, b)
    THEN [h |-> h, ret |-> <<>>, raised |-> "There is no message"]
    ELSE LET pos == index(b, EOM)
             res == slice(b, 0, pos)
         IN [h |-> Rebind(h, o, slice(b, pos, Len(b))), ret |-> res, raised |-> ""]

\* remove_message without the check for an end marker: hands out the whole
\* buffer when there is none
remove_message_unchecked(h, o) ==
    LET b == message_buf(h, o)
        pos == IF In(EOM, b) THEN index(b, EOM) + 1 ELSE Len(b)
        res == slice(b, 0, pos)
    IN [h |-> Rebind(h, o, slice(b, pos, Len(b))), ret |-> res, raised |-> ""]

remove_message_do(h, o) ==
    LET b == message_buf(h, o) IN
    IF ~In(EOM, b)
    THEN [h |-> h, ret |-> <<>>, raised |-> "There is no message"]
    ELSE LET pos == index(b, EOM) + 1
             res == slice(b, 0, pos)
         IN [h |-> Rebind(h, o, slice(b, pos, Len(b))), ret |-> res, raised |-> ""]

remove_message(o) ==
    LET res == remove_message_do(Heap, o) IN
    /\ Commit(res.h)
    /\ last' = [Call("remove_message", o) EXCEPT !.bytes = res.ret,
                                                 !.raised = res.raised]
    /\ UNCHANGED socket

\* drop_message_buffer that leaves the buffer as it is
drop_message_buffer_noop(h, o) == h

\* drop_message_buffer(): self.message_buf = []
drop_message_buffer_do(h, o) == Rebind(h, o, <<>>)

drop_message_buffer(o) ==
    /\ Commit(drop_message_buffer_do(Heap, o))
    /\ last' = Call("drop_message_buffer", o)
    /\ UNCHANGED socket

\* -------------------------------------------------------------- drain loops
\* while self.receive() > 0: self.drop_message_buffer()
\* run against the transport's successive responses; done when the loop ended
\* within the script, left is what it did not consume.
RECURSIVE clear_input_buffer_do(_, _, _)
clear_input_buffer_do(h, o, script) ==
    IF script = <<>> THEN [h |-> h, done |-> FALSE, left |-> <<>>, ret |-> 0]
    ELSE LET r == receive_do(h, o, Head(script)) IN
         IF r.ret > 0
         THEN clear_input_buffer_do(drop_message_buffer_do(r.h, o), o, Tail(script))
         ELSE [h |-> r.h, done |-> TRUE, left |-> Tail(script), ret |-> r.ret]

\* while self.receive(512) == 512: self.drop_message_buffer()
RECURSIVE clear_input_buffer_quick_do(_, _, _)
clear_input_buffer_quick_do(h, o, script) ==
    IF script = <<>> THEN [h |-> h, done |-> FALSE, left |-> <<>>, ret |-> 0]
    ELSE LET r == receive_do(h, o, Head(script)) IN
         IF r.ret = QuickRecv
         THEN clear_input_buffer_quick_do(drop_message_buffer_do(r.h, o), o, Tail(script))
         ELSE [h |-> r.h, done |-> TRUE, left |-> Tail(script), ret |-> r.ret]

Scripts(responses) == UNION {[1..k -> responses] : k \in 1..MaxRounds}

clear_input_buffer(o, script) ==
    IF socket[o] # "connected"
    THEN /\ script = <<NotReady>>
         /\ last' = [Call("clear_input_buffer", o) EXCEPT !.raised = "TransportError"]
         /\ UNCHANGED <<heapvars, socket>>
    ELSE LET res == clear_input_buffer_do(Heap, o, script) IN
         /\ res.done /\ res.left = <<>>
         /\ Commit(res.h)
         /\ last' = [Call("clear_input_buffer", o) EXCEPT
                        !.count = Len(script)]
         /\ UNCHANGED socket

clear_input_buffer_quick(o, script) ==
    IF socket[o] # "connected"
    THEN /\ script = <<NotReady>>
         /\ last' = [Call("clear_input_buffer_quick", o) EXCEPT
                        !.raised = "TransportError"]
         /\ UNCHANGED <<heapvars, socket>>
    ELSE LET res == clear_input_buffer_quick_do(Heap, o, script) IN
         /\ res.done /\ res.left = <<>>
         /\ Commit(res.h)
         /\ last' = [Call("clear_input_buffer_quick", o) EXCEPT
                        !.count = Len(script)]
         /\ UNCHANGED socket

\* ------------------------------------------------------------ specification
\* What the transport may answer to receive(), and to the successive receives
\* of the two drain loops (the scripts on which the loop ends at the last
\* response, whatever the buffer holds).
ReceiveResponses == Responses(DefaultRecv, Chunks)
NoHeap == [cls |-> <<>>, shares |-> [o \in Objs |-> TRUE], own |-> [o \in Objs |-> <<>>]]
ClearScripts ==
    {s \in Scripts(Responses(DefaultRecv, DrainChunks)) :
        LET res == clear_input_buffer_do(NoHeap, "A", s) IN res.done /\ res.left = <<>>}
QuickScripts ==
    {s \in Scripts(Responses(QuickRecv, DrainChunks \cup {FullChunk})) :
        LET res == clear_input_buffer_quick_do(NoHeap, "A", s) IN res.done /\ res.left = <<>>}

\* The lists the model stores: at most MaxBuf bytes each, except that the
\* class-level list may hold one full chunk and nothing else.
Storable ==
    /\ Len(class_buf) <= MaxBuf \/ class_buf = FullChunk
    /\ \A o \in Objs : Len(own[o]) <= MaxBuf

\* One controller driving one TimeBox object; TimeBox("A") replaces it by a
\* newly constructed one.
Next ==
    \/ TimeBox("A") /\ UNCHANGED auxvars
    \/ \E outcome \in ConnectOutcomes : connect("A", outcome) /\ UNCHANGED auxvars
    \/ close("A") /\ UNCHANGED auxvars
    \/ \E r \in ReceiveResponses : receive("A", r) /\ Storable' /\ UNCHANGED auxvars
    \/ has_message("A") /\ UNCHANGED auxvars
    \/ buffer_starts_with_garbage("A") /\ UNCHANGED auxvars
    \/ remove_garbage("A") /\ UNCHANGED auxvars
    \/ remove_message("A") /\ UNCHANGED auxvars
    \/ drop_message_buffer("A") /\ UNCHANGED auxvars
    \/ \E script \in ClearScripts :
           clear_input_buffer("A", script) /\ Storable' /\ UNCHANGED auxvars
    \/ \E script \in QuickScripts :
           clear_input_buffer_quick("A", script) /\ Storable' /\ UNCHANGED auxvars

Spec == Init /\ [][Next]_vars

\* ------------------------------------------------- properties of single calls
\* The buffer of the object of the last call, after the call.
Now == message_buf(Heap, last.obj)
Returned(op) == last.op = op /\ last.raised = ""

\* C1: has_message() is true exactly when the buffer is non-empty and either
\* starts with a byte other than 0x01 or starts with 0x01 and holds a 0x02 at a
\* later position; false exactly when it is empty or starts with 0x01 and
\* holds no 0x02; and the call leaves the buffer as it was.
C1_HasMessage ==
    last.op = "has_message" =>
        LET b == last.pre
            LeadingGarbage == b # <<>> /\ b[1] # 1
            FrameReady == b # <<>> /\ b[1] = 1 /\ \E i \in 2..Len(b) : b[i] = 2
            Empty == b = <<>>
            Incomplete == b # <<>> /\ b[1] = 1 /\ \A i \in 1..Len(b) : b[i] # 2
        IN /\ last.bool = (LeadingGarbage \/ FrameReady)
           /\ (~last.bool) = (Empty \/ Incomplete)
           /\ last.raised = ""
           /\ Now = b

C1_Witness ==
    /\ last.op = "has_message" /\ last.pre = <<1, 2>> /\ last.bool
    /\ Now = <<1, 2>>

\* C3: remove_message() on a buffer holding a 0x02 returns the prefix up to and
\* including the first 0x02 and leaves the bytes after it, in order.
C3_RemoveMessage ==
    (last.op = "remove_message" /\ \E i \in 1..Len(last.pre) : last.pre[i] = 2) =>
        /\ last.raised = ""
        /\ \E k \in 1..Len(last.pre) :
              /\ last.pre[k] = 2
              /\ \A j \in 1..(k - 1) : last.pre[j] # 2
              /\ last.bytes = SubSeq(last.pre, 1, k)
              /\ Now = SubSeq(last.pre, k + 1, Len(last.pre))

C3_Witness ==
    /\ Returned("remove_message") /\ last.pre = <<2, 5>>
    /\ last.bytes = <<2>> /\ Now = <<5>>

\* C4: remove_message() on a buffer without 0x02 (empty, incomplete, garbage)
\* raises, returns no frame and leaves the buffer unchanged.
C4_NoMessage ==
    (last.op = "remove_message" /\ \A i \in 1..Len(last.pre) : last.pre[i] # 2) =>
        /\ last.raised = "There is no message"
        /\ last.bytes = <<>>
        /\ Now = last.pre

C4_Witness ==
    /\ last.op = "remove_message" /\ last.pre = <<1, 5>>
    /\ last.raised = "There is no message" /\ Now = <<1, 5>>

\* C5: remove_garbage() returns the prefix before the first 0x01 (everything
\* when there is none, nothing on an empty buffer) and leaves the rest; the
\* buffer is then empty or starts with 0x01, so that
\* buffer_starts_with_garbage() is false.
C5_RemoveGarbage ==
    last.op = "remove_garbage" =>
        /\ last.raised = ""
        /\ \E k \in 0..Len(last.pre) :
              /\ \A j \in 1..k : last.pre[j] # 1
              /\ k < Len(last.pre) => last.pre[k + 1] = 1
              /\ last.bytes = SubSeq(last.pre, 1, k)
              /\ Now = SubSeq(last.pre, k + 1, Len(last.pre))
        /\ Now = <<>> \/ Now[1] = 1
        /\ ~buffer_starts_with_garbage_value(Now)

C5_Witness ==
    /\ Returned("remove_garbage") /\ last.pre = <<5, 1>>
    /\ last.bytes = <<5>> /\ Now = <<1>>

\* C6: buffer_starts_with_garbage() is true exactly when the buffer is
\* non-empty and its first byte is not 0x01; then has_message() is true too;
\* on an empty buffer it is false.
C6_StartsWithGarbage ==
    last.op = "buffer_starts_with_garbage" =>
        /\ last.bool = (last.pre # <<>> /\ last.pre[1] # 1)
        /\ last.bool => has_message_value(Now)
        /\ last.pre = <<>> => ~last.bool
        /\ last.raised = ""
        /\ Now = last.pre

C6_Witness ==
    /\ last.op = "buffer_starts_with_garbage" /\ last.pre = <<5, 1>> /\ last.bool
    /\ has_message_value(Now)

\* C7: when clear_input_buffer() returns, the buffer is empty, whatever it
\* held before.
C7_ClearLeavesEmpty ==
    Returned("clear_input_buffer") => Now = <<>>

\* C8: clear_input_buffer_quick() drops the buffer after every receive, the
\* last one included: called on an empty buffer it returns with an empty
\* buffer.
C8_QuickLeavesEmpty ==
    (Returned("clear_input_buffer_quick") /\ last.pre = <<>>) => Now = <<>>

\* C11: when connect() fails (connect or setblocking raises), the socket it
\* created has been closed by the time the error reaches the caller.
C11_ClosedOnFailure ==
    (last.op = "connect" /\ last.raised # "") => socket[last.obj] = "closed"

\* C9: right after a newly constructed object's connect() has opened its
\* connection, the buffer of the object is empty.
C9_EmptyAtConnect ==
    (Returned("connect") /\ last.bool) => Len(Now) = 0

\* ------------------------------------------------------------- two objects
\* Two TimeBox objects, both constructed and connected, called in any order.
InitTwo ==
    /\ class_buf = <<>>
    /\ shares = [o \in Objs |-> TRUE]
    /\ own = [o \in Objs |-> <<>>]
    /\ socket = [o \in Objs |-> "connected"]
    /\ last = NoCall
    /\ todo = <<>>
    /\ expect = <<>>
    /\ frames = <<>>
    /\ pc = "recv"
    /\ InitAux

NextTwo ==
    \/ \E o \in Objs, r \in ReceiveResponses :
           receive(o, r) /\ Storable' /\ UNCHANGED auxvars
    \/ \E o \in Objs : remove_garbage(o) /\ UNCHANGED auxvars
    \/ \E o \in Objs : remove_message(o) /\ UNCHANGED auxvars
    \/ \E o \in Objs : drop_message_buffer(o) /\ UNCHANGED auxvars

SpecTwo == InitTwo /\ [][NextTwo]_vars

\* C10: a call on one object never changes the content of the other object's
\* buffer.
C10_Exclusive ==
    [][\A o \in Objs : o # last'.obj => message_buf(Heap, o)' = message_buf(Heap, o)]_vars

\* ------------------------------------------------------ extraction session
\* Most frames in one stream.
MaxFrames == 2
\* Frames: 0x01, bytes other than the markers, 0x02.
FrameSet == {<<1, 2>>, <<1, 16, 2>>}
\* Garbage runs: no 0x01; 0x02 may occur.
GarbageSet == {<<>>, <<5, 6>>, <<2, 5>>}

\* The streams of at most n frames, each with the frames it was built from:
\* garbage, then frame and garbage, n times at most.
RECURSIVE Streams(_)
Streams(n) ==
    IF n = 0 THEN {[bytes |-> g, frames |-> <<>>] : g \in GarbageSet}
    ELSE Streams(n - 1) \cup
         {[bytes |-> x.bytes \o f \o g, frames |-> Append(x.frames, f)] :
             x \in {y \in Streams(n - 1) : Len(y.frames) = n - 1},
             f \in FrameSet, g \in GarbageSet}

\* A newly constructed, connected object and a stream the transport is about
\* to deliver to it.
InitSession ==
    /\ class_buf = <<>>
    /\ shares = [o \in Objs |-> TRUE]
    /\ own = [o \in Objs |-> <<>>]
    /\ socket = [o \in Objs |-> IF o = "A" THEN "connected" ELSE "None"]
    /\ last = NoCall
    /\ \E x \in Streams(MaxFrames) : todo = x.bytes /\ expect = x.frames
    /\ frames = <<>>
    /\ pc = "recv"
    /\ InitAux

\* receive(): the transport is not ready, or hands over the next n bytes of
\* the stream; the caller then runs its loop.
Deliver ==
    /\ pc = "recv"
    /\ \E r \in {NotReady} \cup
                {[ready |-> TRUE, data |-> SubSeq(todo, 1, n)] :
                    n \in 0..(IF Len(todo) < DefaultRecv THEN Len(todo) ELSE DefaultRecv)} :
          /\ receive("A", r)
          /\ todo' = SubSeq(todo, Len(r.data) + 1, Len(todo))
    /\ pc' = "loop"
    /\ UNCHANGED <<expect, frames>>

\* One turn of the caller's loop
\*   while has_message():
\*       if buffer_starts_with_garbage(): remove_garbage()
\*       else: remove_message()
LoopGarbage ==
    /\ pc = "loop"
    /\ has_message_value(message_buf(Heap, "A"))
    /\ buffer_starts_with_garbage_value(message_buf(Heap, "A"))
    /\ remove_garbage("A")
    /\ UNCHANGED sessvars

LoopMessage ==
    /\ pc = "loop"
    /\ has_message_value(message_buf(Heap, "A"))
    /\ ~buffer_starts_with_garbage_value(message_buf(Heap, "A"))
    /\ remove_message("A")
    /\ frames' = IF last'.raised = "" THEN Append(frames, last'.bytes) ELSE frames
    /\ pc' = IF last'.raised = "" THEN "loop" ELSE "recv"
    /\ UNCHANGED <<todo, expect>>

LoopExit ==
    /\ pc = "loop"
    /\ ~has_message_value(message_buf(Heap, "A"))
    /\ has_message("A")
    /\ pc' = "recv"
    /\ UNCHANGED <<todo, expect, frames>>

NextSession ==
    \/ Deliver /\ UNCHANGED <<sendvars, histvars, loopvars>>
    \/ LoopGarbage /\ UNCHANGED <<sendvars, histvars, loopvars>>
    \/ LoopMessage /\ UNCHANGED <<sendvars, histvars, loopvars>>
    \/ LoopExit /\ UNCHANGED <<sendvars, histvars, loopvars>>

SpecSession == InitSession /\ [][NextSession]_vars

IsPrefix(s, t) == Len(s) <= Len(t) /\ s = SubSeq(t, 1, Len(s))

\* C2: however the stream is cut into chunks, the values remove_message()
\* returns are the frames of the stream, in order and byte for byte: at any
\* moment a prefix of them, and all of them once the stream is delivered and
\* the loop has run; and on the buffer [5, 6, 1, 16, 2] remove_garbage()
\* returns [5, 6], has_message() is then true and remove_message() returns
\* [1, 16, 2] and leaves the buffer empty.
C2_FramesInOrder ==
    /\ IsPrefix(frames, expect)
    /\ (todo = <<>> /\ pc = "recv") => frames = expect
    /\ (Returned("remove_garbage") /\ last.pre = <<5, 6, 1, 16, 2>>) =>
          /\ last.bytes = <<5, 6>>
          /\ Now = <<1, 16, 2>>
          /\ has_message_value(Now)
    /\ (last.op = "remove_message" /\ last.pre = <<1, 16, 2>>) =>
          /\ last.raised = ""
          /\ last.bytes = <<1, 16, 2>>
          /\ Now = <<>>

C2_Witness ==
    /\ todo = <<>> /\ pc = "recv"
    /\ expect = <<<<1, 16, 2>>, <<1, 2>>>>
    /\ frames = expect
    /\ last.op = "has_message" /\ ~last.bool

\* ------------------------------------------------------------------ sending
\* Longest argument list and longest raw payload of the model.
MaxArgs == 2
MaxPayload == 2

\* TimeBox.COMMANDS
COMMANDS ==
    ("switch radio" :> 5) @@ ("set volume" :> 8) @@ ("get volume" :> 9) @@
    ("set mute" :> 10) @@ ("get mute" :> 11) @@ ("set date time" :> 24) @@
    ("set image" :> 68) @@ ("set view" :> 69) @@ ("set animation frame" :> 73) @@
    ("get temperature" :> 89) @@ ("get radio frequency" :> 96) @@
    ("set radio frequency" :> 97)

\* A command identifier: a str (looked up in COMMANDS) or an int (used as is).
Name(n) == [kind |-> "str", name |-> n, code |-> 0]
Code(c) == [kind |-> "int", name |-> "", code |-> c]
CommandIds ==
    {Name("set volume"), Name("set date time"), Name("reboot"), Name(""), Code(153)}

\* args: None (the default) or a list of bytes; one list is long enough for
\* the length to need its second byte.
None == [given |-> FALSE, list |-> <<>>]
List(a) == [given |-> TRUE, list |-> a]
ArgLists ==
    {None} \cup {List(a) : a \in SeqsUpTo({3, 10}, MaxArgs)}
           \cup {List([i \in 1..253 |-> 10])}

\* bytes(msg): every element must be in range(256)
bytes_ok(msg) == \A i \in 1..Len(msg) : msg[i] \in 0..255

\* ------------------------------------------------- frame codec (messages.py)
\* The escape marker.
ESC == 3

\* The sum of the bytes of p (halving, so that long payloads stay shallow).
RECURSIVE sum(_)
sum(p) ==
    IF p = <<>> THEN 0
    ELSE IF Len(p) = 1 THEN p[1]
    ELSE LET m == Len(p) \div 2
         IN sum(SubSeq(p, 1, m)) + sum(SubSeq(p, m + 1, Len(p)))
\* One checksum byte: the sum of the payload bytes, truncated.
checksum(p) == sum(p) % 256

\* Byte stuffing: a reserved byte b becomes ESC, b + ESC.
RECURSIVE escape(_)
escape(x) ==
    IF x = <<>> THEN <<>>
    ELSE IF Len(x) = 1
    THEN (IF x[1] \in {SOM, EOM, ESC} THEN <<ESC, x[1] + ESC>> ELSE x)
    ELSE LET m == Len(x) \div 2
         IN escape(SubSeq(x, 1, m)) \o escape(SubSeq(x, m + 1, Len(x)))

RECURSIVE unescape(_)
unescape(x) ==
    IF x = <<>> THEN [ok |-> TRUE, out |-> <<>>]
    ELSE IF Head(x) = ESC
    THEN IF Len(x) < 2 \/ x[2] \notin {SOM + ESC, EOM + ESC, ESC + ESC}
         THEN [ok |-> FALSE, out |-> <<>>]
         ELSE LET r == unescape(SubSeq(x, 3, Len(x)))
              IN [ok |-> r.ok, out |-> <<x[2] - ESC>> \o r.out]
    ELSE LET r == unescape(Tail(x))
         IN [ok |-> r.ok, out |-> <<Head(x)>> \o r.out]

\* make_message that leaves the reserved bytes as they are
make_message_unescaped(payload) ==
    <<SOM>> \o Append(payload, checksum(payload)) \o <<EOM>>

\* messages.make_message(payload): 0x01, escaped payload and checksum, 0x02
make_message(payload) ==
    <<SOM>> \o escape(Append(payload, checksum(payload))) \o <<EOM>>

Failed(e) == [error |-> e, payload |-> <<>>]

\* messages.decode(msg): the payload, or the reason the frame is malformed
decode_value(msg) ==
    IF Len(msg) = 0 \/ msg[1] # SOM THEN Failed("MissingStart")
    ELSE IF Len(msg) < 2 \/ msg[Len(msg)] # EOM THEN Failed("MissingEnd")
    ELSE LET u == unescape(SubSeq(msg, 2, Len(msg) - 1))
         IN IF ~u.ok THEN Failed("BadEscape")
            ELSE IF u.out = <<>> THEN Failed("ChecksumMismatch")
            ELSE LET p == SubSeq(u.out, 1, Len(u.out) - 1)
                 IN IF checksum(p) # u.out[Len(u.out)]
                    THEN Failed("ChecksumMismatch")
                    ELSE [error |-> "", payload |-> p]

\* ------------------------------------------------------------- send methods
Sent(h, w, e) == [handed |-> h, wire |-> w, raised |-> e]

\* self.socket.send(data) on a socket in state sock
socket_send(sock, h, data) ==
    IF sock = "None" THEN Sent(h, <<>>, "AttributeError")
    ELSE IF sock # "connected" THEN Sent(h, <<>>, "TransportError")
    ELSE Sent(h, <<data>>, "")

\* send_payload(payload): frame the payload, send the frame
send_payload_do(sock, payload) ==
    LET msg == make_message(payload)
    IN IF sock = "None" THEN Sent(<<payload>>, <<>>, "AttributeError")
       ELSE IF ~bytes_ok(msg) THEN Sent(<<payload>>, <<>>, "ValueError")
       ELSE socket_send(sock, <<payload>>, msg)

\* send_command with the length at two bytes less than lines 96-99 compute
send_command_short(sock, command, args) ==
    LET a == IF args.given THEN args.list ELSE <<>>
        opcode == IF command.kind = "str" THEN COMMANDS[command.name] ELSE command.code
        length == Len(a) + 1
    IN IF command.kind = "str" /\ command.name \notin DOMAIN COMMANDS
       THEN Sent(<<>>, <<>>, "KeyError")
       ELSE send_payload_do(sock, <<length % 256, length \div 256, opcode>> \o a)

\* send_command that sends opcode 0 for a name it does not know
send_command_lenient(sock, command, args) ==
    LET a == IF args.given THEN args.list ELSE <<>>
        opcode == IF command.kind # "str" THEN command.code
                  ELSE IF command.name \in DOMAIN COMMANDS THEN COMMANDS[command.name]
                  ELSE 0
        length == Len(a) + 3
    IN send_payload_do(sock, <<length % 256, length \div 256, opcode>> \o a)

\* send_command(command, args): args None is []; a str is looked up in
\* COMMANDS (KeyError when absent); length = len(args) + 3;
\* payload = [length & 0xff, length >> 8, command] + args; send_payload.
send_command_do(sock, command, args) ==
    LET a == IF args.given THEN args.list ELSE <<>>
        opcode == IF command.kind = "str" THEN COMMANDS[command.name] ELSE command.code
        length == Len(a) + 3
        length_lsb == length % 256
        length_msb == length \div 256
    IN IF command.kind = "str" /\ command.name \notin DOMAIN COMMANDS
       THEN Sent(<<>>, <<>>, "KeyError")
       ELSE send_payload_do(sock, <<length_lsb, length_msb, opcode>> \o a)

\* ------------------------------------------------------------------ set_time
\* str(n) for n >= 0: the decimal digits, no padding
RECURSIVE str(_)
str(n) == IF n < 10 THEN <<n>> ELSE Append(str(n \div 10), n % 10)

\* int(s) for a string of digits; int("") raises ValueError
RECURSIVE int(_)
int(s) == IF s = <<>> THEN 0 ELSE 10 * int(SubSeq(s, 1, Len(s) - 1)) + s[Len(s)]

\* s[lo:hi] with both ends clamped to the length, as Python slices are
clamp(n, s) == IF n > Len(s) THEN Len(s) ELSE n
str_slice(s, lo, hi) == slice(s, clamp(lo, s), clamp(hi, s))

\* datetime values: years 1..9999 (datetime.MINYEAR..MAXYEAR)
Years == {5, 99, 999, 1000, 2024, 9999}
Time(y, mo, d, h, mi, sec) ==
    [given |-> TRUE, year |-> y, month |-> mo, day |-> d,
     hour |-> h, minute |-> mi, second |-> sec]
Times ==
    {Time(y, 1, 1, 0, 0, 0) : y \in Years} \cup {Time(y, 12, 31, 23, 59, 59) : y \in Years}
\* time=None
NoTime == [Time(0, 0, 0, 0, 0, 0) EXCEPT !.given = FALSE]

\* set_time(time): time None is datetime.now(); the year is split by slicing
\* its decimal string, str(year)[2:] and str(year)[0:2]; then
\* send_command("set date time", args).
set_time_do(sock, time, now) ==
    LET t == IF time.given THEN time ELSE now
        year == str(t.year)
        low == str_slice(year, 2, Len(year))
        high == str_slice(year, 0, 2)
    IN IF low = <<>> THEN Sent(<<>>, <<>>, "ValueError")
       ELSE send_command_do(sock, Name("set date time"),
                List(<<int(low), int(high), t.month, t.day,
                       t.hour, t.minute, t.second, 0>>))

\* ---------------------------------------------------------------- send calls
SendCall(op, command, args, time, payload) ==
    [op |-> op, command |-> command, args |-> args, time |-> time, payload |-> payload]

Answer(o, op, res) ==
    /\ handed' = res.handed
    /\ wire' = res.wire
    /\ last' = [Call(op, o) EXCEPT !.raised = res.raised]
    /\ UNCHANGED <<heapvars, socket>>

send_raw(o, data) ==
    /\ arg' = SendCall("send_raw", Code(0), None, NoTime, data)
    /\ Answer(o, "send_raw", socket_send(socket[o], <<>>, data))

send_payload(o, payload) ==
    /\ arg' = SendCall("send_payload", Code(0), None, NoTime, payload)
    /\ Answer(o, "send_payload", send_payload_do(socket[o], payload))

send_command(o, command, args) ==
    /\ arg' = SendCall("send_command", command, args, NoTime, <<>>)
    /\ Answer(o, "send_command", send_command_do(socket[o], command, args))

\* arg.time is the time the call used: the argument, or the clock's reading.
set_time(o, time, now) ==
    /\ arg' = SendCall("set_time", Code(0), None,
                       IF time.given THEN time ELSE [now EXCEPT !.given = FALSE], <<>>)
    /\ Answer(o, "set_time", set_time_do(socket[o], time, now))

\* decode(msg): messages.decode(msg); the payload is recorded as last.bytes
decode(o, msg) ==
    /\ arg' = SendCall("decode", Code(0), None, NoTime, msg)
    /\ handed' = <<>>
    /\ wire' = <<>>
    /\ LET res == decode_value(msg)
       IN last' = [Call("decode", o) EXCEPT !.bytes = res.payload, !.raised = res.error]
    /\ UNCHANGED <<heapvars, socket>>

Payloads == SeqsUpTo({SOM, EOM, ESC, 5}, MaxPayload)
\* Frames as a peer sends them, and some malformed ones.
Messages ==
    {make_message(p) : p \in SeqsUpTo({SOM, ESC, 5}, MaxPayload)}
        \cup {<<>>, <<5, 2>>, <<1, 5>>, <<1, 3, 2>>, <<1, 3, 9, 2>>, <<1, 5, 6, 2>>, <<1, 2>>}

restvars == <<sessvars, histvars, loopvars>>

\* A newly constructed object; its buffer is empty or holds what earlier
\* receives of the process left in the class-level list.
InitSend ==
    /\ class_buf \in {<<>>, <<1, 5>>}
    /\ shares = [o \in Objs |-> TRUE]
    /\ own = [o \in Objs |-> <<>>]
    /\ socket = [o \in Objs |-> "None"]
    /\ last = NoCall
    /\ todo = <<>>
    /\ expect = <<>>
    /\ frames = <<>>
    /\ pc = "recv"
    /\ InitAux

\* One controller sending to one TimeBox object.
NextSend ==
    \/ \E outcome \in ConnectOutcomes : connect("A", outcome) /\ UNCHANGED auxvars
    \/ close("A") /\ UNCHANGED auxvars
    \/ \E data \in DrainChunks : send_raw("A", data) /\ UNCHANGED restvars
    \/ \E payload \in Payloads : send_payload("A", payload) /\ UNCHANGED restvars
    \/ \E command \in CommandIds, args \in ArgLists :
           send_command("A", command, args) /\ UNCHANGED restvars
    \/ \E time \in Times \cup {NoTime}, now \in Times :
           /\ time.given => now = time
           /\ set_time("A", time, now)
           /\ UNCHANGED restvars
    \/ \E msg \in Messages : decode("A", msg) /\ UNCHANGED restvars

SpecSend == InitSend /\ [][NextSend]_vars

\* C12: send_command hands the framing layer the payload
\* [L mod 256, L div 256, opcode] ++ args with L = len(args) + 3 (args None
\* counting as []), the opcode being the table's value for a name and the
\* number itself otherwise, and sends exactly one frame; no arguments give
\* [3, 0, opcode], and ("set volume", [0x0a]) gives [4, 0, 8, 0x0a].
C12_Payload ==
    Returned("send_command") =>
        LET a == IF arg.args.given THEN arg.args.list ELSE <<>>
            L == Len(a) + 3
        IN /\ Len(handed) = 1 /\ Len(wire) = 1
           /\ Len(handed[1]) = L
           /\ handed[1][1] = L % 256
           /\ handed[1][2] = L \div 256
           /\ handed[1][3] = (IF arg.command.kind = "str"
                              THEN COMMANDS[arg.command.name] ELSE arg.command.code)
           /\ \A i \in 1..Len(a) : handed[1][3 + i] = a[i]
           /\ a = <<>> => handed[1] = <<3, 0, handed[1][3]>>
           /\ (arg.command = Name("set volume") /\ a = <<10>>) => handed[1] = <<4, 0, 8, 10>>
           /\ wire[1] = make_message(handed[1])

C12_Witness ==
    /\ Returned("send_command")
    /\ arg.command = Name("set volume") /\ arg.args = List(<<10>>)
    /\ handed = <<<<4, 0, 8, 10>>>>
    /\ Len(wire) = 1

C12_WitnessLong ==
    /\ Returned("send_command")
    /\ Len(arg.args.list) = 253
    /\ handed[1][1] = 0 /\ handed[1][2] = 1

\* C13: send_command with a name that is not in the command table raises a
\* catchable error (KeyError) before anything is built or sent: no payload is
\* framed, no bytes reach the transport, and the receive buffer and the
\* connection are as they were.
C13_UnknownCommand ==
    [][(/\ last'.op = "send_command"
        /\ arg'.command.kind = "str"
        /\ arg'.command.name \notin DOMAIN COMMANDS)
       => (/\ last'.raised = "KeyError"
           /\ handed' = <<>>
           /\ wire' = <<>>
           /\ UNCHANGED <<heapvars, socket>>)]_vars

C13_Witness ==
    /\ last.op = "send_command" /\ arg.command = Name("reboot")
    /\ last.raised = "KeyError"
    /\ socket["A"] = "connected" /\ Now = <<1, 5>>
    /\ handed = <<>> /\ wire = <<>>

\* C14: decoding the frame made from a payload gives back that payload, for
\* every payload, the empty one and those holding 0x01, 0x02 or the escape
\* marker included: the frame send_payload puts on the wire decodes to the
\* payload it was given, and decode(make_message(p)) returns p.
C14_RoundTrip ==
    /\ Returned("send_payload") =>
          /\ Len(wire) = 1
          /\ decode_value(wire[1]) = [error |-> "", payload |-> arg.payload]
    /\ \A p \in Payloads :
          (last.op = "decode" /\ arg.payload = make_message(p)) =>
              last.raised = "" /\ last.bytes = p

C14_Witness ==
    /\ Returned("send_payload") /\ arg.payload = <<1, 3>>
    /\ wire = <<<<1, 3, 4, 3, 6, 4, 2>>>>
    /\ decode_value(wire[1]).payload = <<1, 3>>

\* C15: set_time(t) on a connected socket sends exactly one "set date time"
\* (0x18) command whose arguments are [year mod 100, year div 100, month,
\* day, hour, minute, second, 0], so its payload starts [0x0b, 0x00, 0x18],
\* for every timestamp t; t defaults to the current local time.
C15_SetTime ==
    (last.op = "set_time" /\ socket[last.obj] = "connected") =>
        LET t == arg.time
        IN /\ last.raised = ""
           /\ handed = <<<<11, 0, 24, t.year % 100, t.year \div 100, t.month, t.day,
                          t.hour, t.minute, t.second, 0>>>>
           /\ Len(wire) = 1

\* ------------------------------------------------- receive and drop, per call
\* C16: receive(n) appends exactly the bytes the transport returned to the
\* tail of the buffer, whatever their values, keeps the previous content as a
\* prefix and returns their count; when the transport is not ready it returns
\* 0 and leaves the buffer unchanged.
C16_Receive ==
    Returned("receive") =>
        IF last.bool
        THEN /\ Now = last.pre \o last.bytes
             /\ SubSeq(Now, 1, Len(last.pre)) = last.pre
             /\ last.count = Len(last.bytes)
        ELSE /\ last.count = 0
             /\ Now = last.pre

C16_Witness ==
    /\ Returned("receive") /\ last.bool
    /\ last.pre = <<5>> /\ last.bytes = <<2>>
    /\ Now = <<5, 2>> /\ last.count = 1

\* C17: drop_message_buffer() leaves the buffer empty whatever it held, so
\* has_message() and buffer_starts_with_garbage() are then false; it does not
\* raise and changes nothing else: not the socket, not the class-level list,
\* not another object's buffer.
C17_Drop ==
    [][\A o \in Objs :
          (last'.op = "drop_message_buffer" /\ last'.obj = o) =>
              (/\ last'.raised = ""
               /\ message_buf(Heap, o)' = <<>>
               /\ ~has_message_value(message_buf(Heap, o)')
               /\ ~buffer_starts_with_garbage_value(message_buf(Heap, o)')
               /\ UNCHANGED <<socket, class_buf>>
               /\ \A x \in Objs \ {o} : message_buf(Heap, x)' = message_buf(Heap, x))]_vars

C17_Witness ==
    /\ last.op = "drop_message_buffer" /\ last.pre = <<1, 2>>
    /\ Now = <<>> /\ socket["A"] = "connected"

\* ------------------------------------------------ one connection, with history
\* Most bytes one connection receives in the model.
MaxTotal == 4

\* A newly constructed, connected object; nothing received yet.
InitCalls ==
    /\ class_buf = <<>>
    /\ shares = [o \in Objs |-> TRUE]
    /\ own = [o \in Objs |-> <<>>]
    /\ socket = [o \in Objs |-> IF o = "A" THEN "connected" ELSE "None"]
    /\ last = NoCall
    /\ todo = <<>>
    /\ expect = <<>>
    /\ frames = <<>>
    /\ pc = "recv"
    /\ InitAux

\* receive(), the bytes it appended noted in rcvd
Received ==
    \E r \in ReceiveResponses :
        /\ receive("A", r)
        /\ rcvd' = rcvd \o r.data
        /\ Len(rcvd') <= MaxTotal
        /\ UNCHANGED taken

\* remove_garbage() / remove_message(), the value returned noted in taken
TookGarbage ==
    /\ remove_garbage("A")
    /\ taken' = taken \o last'.bytes
    /\ UNCHANGED rcvd

TookMessage ==
    /\ remove_message("A")
    /\ taken' = IF last'.raised = "" THEN taken \o last'.bytes ELSE taken
    /\ UNCHANGED rcvd

\* The calls of one connection, in any order, drop_message_buffer excepted.
NextCalls ==
    \/ Received /\ UNCHANGED <<sessvars, sendvars, loopvars>>
    \/ TookGarbage /\ UNCHANGED <<sessvars, sendvars, loopvars>>
    \/ TookMessage /\ UNCHANGED <<sessvars, sendvars, loopvars>>
    \/ has_message("A") /\ UNCHANGED auxvars
    \/ buffer_starts_with_garbage("A") /\ UNCHANGED auxvars

SpecCalls == InitCalls /\ [][NextCalls]_vars

\* C18: on one connection, without drop_message_buffer, the values
\* remove_garbage and remove_message returned, concatenated in call order and
\* followed by the current buffer, are the received chunks concatenated: no
\* byte is lost, duplicated or reordered.
C18_Conservation ==
    taken \o message_buf(Heap, "A") = rcvd

C18_Witness ==
    /\ Returned("remove_message")
    /\ rcvd = <<5, 1, 2, 1>>
    /\ taken = <<5, 1, 2>>
    /\ message_buf(Heap, "A") = <<1>>

\* C19: whatever bytes were received, a value remove_message() returns when
\* the buffer starts with 0x01 and holds a 0x02 starts with 0x01, ends with
\* 0x02, holds no other 0x02 and holds no other 0x01.
C19_WellDelimited ==
    (/\ Returned("remove_message")
     /\ last.pre # <<>> /\ last.pre[1] = 1 /\ In(2, last.pre)) =>
        LET f == last.bytes
        IN /\ f[1] = 1
           /\ f[Len(f)] = 2
           /\ \A i \in 1..(Len(f) - 1) : f[i] # 2
           /\ \A i \in 2..Len(f) : f[i] # 1

\* ------------------------------------------------------------- caller's loop
\* Longest buffer the loop is started on in the model.
MaxLoopBuf == 4

\* receive(); the caller then runs  while has_message(): step
Arrive ==
    /\ pc = "recv"
    /\ \E r \in ReceiveResponses : receive("A", r)
    /\ Len(message_buf(Heap, "A")') <= MaxLoopBuf
    /\ pc' = "loop"
    /\ steps' = 0
    /\ len0' = Len(message_buf(Heap, "A")')
    /\ UNCHANGED <<todo, expect, frames>>

\* step: remove_garbage() if buffer_starts_with_garbage() else remove_message()
StepGarbage ==
    /\ LoopGarbage
    /\ steps' = steps + 1
    /\ UNCHANGED len0

\* An exception leaves the loop.
StepMessage ==
    /\ pc = "loop"
    /\ has_message_value(message_buf(Heap, "A"))
    /\ ~buffer_starts_with_garbage_value(message_buf(Heap, "A"))
    /\ remove_message("A")
    /\ pc' = IF last'.raised = "" THEN "loop" ELSE "raised"
    /\ steps' = steps + 1
    /\ UNCHANGED <<todo, expect, frames, len0>>

NextLoop ==
    \/ Arrive /\ UNCHANGED <<sendvars, histvars>>
    \/ StepGarbage /\ UNCHANGED <<sendvars, histvars>>
    \/ StepMessage /\ UNCHANGED <<sendvars, histvars>>
    \/ LoopExit /\ UNCHANGED <<sendvars, histvars, loopvars>>

SpecLoop == InitCalls /\ [][NextLoop]_vars

\* C20: whenever has_message() is true the loop's step does not raise and
\* leaves the buffer strictly shorter; the loop can always take its next turn
\* and has taken at most len(buffer) steps when it ends, in a buffer that is
\* empty or starts with 0x01 and holds no 0x02; and a buffer that starts with
\* 0x01 and holds no 0x02 still gives has_message() false after a receive
\* whose chunk holds no 0x02.
C20_Progress ==
    LET b == message_buf(Heap, "A")
        Incomplete(x) == x # <<>> /\ x[1] = 1 /\ \A i \in 1..Len(x) : x[i] # 2
    IN /\ pc # "raised"
       /\ last.op \in {"remove_garbage", "remove_message"} =>
              last.raised = "" /\ Len(b) < Len(last.pre)
       /\ pc = "loop" =>
              /\ steps + Len(b) <= len0
              /\ ENABLED (StepGarbage \/ StepMessage \/ LoopExit)
       /\ (pc = "recv" /\ last.op = "has_message") =>
              /\ ~last.bool
              /\ steps <= len0
              /\ b = <<>> \/ Incomplete(b)
       /\ (Returned("receive") /\ Incomplete(last.pre) /\ ~In(2, last.bytes)) =>
              ~has_message_value(b)

C20_Witness ==
    /\ pc = "recv" /\ last.op = "has_message" /\ ~last.bool
    /\ len0 = 4 /\ steps = 2
    /\ message_buf(Heap, "A") = <<>>

====
